---- MODULE Spec2Model ----
(***************************************************************************)
(* The real-time presence/messaging client of torb-records: the usePresence *)
(* hook (frontend/src/hooks/usePresence.ts).  One hook instance is modelled: *)
(* its socket and reconnect timers, the roster, the global and per-peer    *)
(* direct message logs, and the unread counts kept in memory and in the    *)
(* durable ledger (lib/indexedDb).                                         *)
(***************************************************************************)
EXTENDS Integers, Sequences, FiniteSets, TLC

VARIABLES
  mounted,               \* the useEffect of the hook is active
  sockets,               \* the WebSockets the hook created, in creation order; a
                         \* closed socket is kept only while socketRef holds it
  socketRef,             \* socketRef.current: an index into sockets, 0 for null
  reconnectAttemptsRef,  \* reconnectAttemptsRef.current
  timers,                \* pending setTimeout(connect, delay): the delays
  isConnected,           \* useState isConnected
  onlineUsers,           \* useState onlineUsers (the roster)
  globalChatMessages,    \* useState globalChatMessages
  directMessages,        \* useState directMessages: peer -> log
  unreadCounts,          \* useState unreadCounts: peer -> count
  currentUsernameRef,    \* currentUsernameRef.current
  ledger,                \* the durable unread ledger: peer -> count
  pending,               \* ledger operations issued and not yet continued
  documentHidden,        \* document.hidden
  pathname,              \* window.location.pathname
  notificationPermission,\* Notification.permission
  notifications,         \* the notifications raised so far: their senders
  sent,                  \* the frames handed to socket.send, in order
  hist                   \* history of the run, read by the properties only

vars == <<mounted, sockets, socketRef, reconnectAttemptsRef, timers, isConnected,
          onlineUsers, globalChatMessages, directMessages, unreadCounts,
          currentUsernameRef, ledger, pending, documentHidden, pathname,
          notificationPermission, notifications, sent, hist>>

connVars == <<mounted, sockets, socketRef, reconnectAttemptsRef, timers, isConnected>>
logVars == <<globalChatMessages, directMessages>>
envVars == <<documentHidden, pathname>>
outVars == <<notificationPermission, notifications, sent>>

----------------------------------------------------------------------------
(* Bounds of the model *)

MaxMounts == 2
MaxId == 2
MaxBatch == 2
MaxPending == 2
MaxUnread == 2
MaxCalls == 3
MaxInvalid == 2

----------------------------------------------------------------------------
(* Program constants *)

maxReconnectAttempts == 10
baseReconnectDelay == 1000
maxReconnectDelay == 30000
PolicyViolation == 1008
ServerError == 1011

\* null and undefined: a value that is no username
Null == <<"null">>

----------------------------------------------------------------------------
(* Usernames are strings, modelled as sequences of characters so that       *)
(* String.prototype.includes is computed and not assumed.                   *)

Me == <<"m", "e">>
Bob == <<"b", "o", "b">>
Bobby == <<"b", "o", "b", "b", "y">>
Peers == {Bob, Bobby}

\* `/chat/dm/${username}`: the route prefix is a single token
DmPath(username) == <<"/chat/dm/">> \o username
Paths == {<<"/library">>} \cup {DmPath(p) : p \in Peers}

\* String.prototype.includes
Includes(hay, needle) ==
  \E i \in 1..(Len(hay) - Len(needle) + 1) :
    SubSeq(hay, i, i + Len(needle) - 1) = needle

----------------------------------------------------------------------------
(* The WebSocket objects *)

\* the codes a close event can carry: normal closure, abnormal closure and
\* the two the client treats as terminal
CloseCodes == {1000, 1006, PolicyViolation, ServerError}

\* new WebSocket(WS_URL) with onopen/onmessage/onerror/onclose assigned
NewSocket == [readyState |-> "CONNECTING", onclose |-> TRUE, replaced |-> FALSE]

\* (a variant in which close() is not called)
CloseSocket_Noop(s) == s

\* WebSocket.close(): a socket that is connecting or open starts closing,
\* its close event comes later; on a closing or closed socket it does nothing
CloseSocket(s) ==
  IF s.readyState \in {"CONNECTING", "OPEN"}
    THEN [s EXCEPT !.readyState = "CLOSING"]
    ELSE s

RemoveAt(s, k) == SubSeq(s, 1, k - 1) \o SubSeq(s, k + 1, Len(s))

\* a socket that is closed and that socketRef no longer holds has no further
\* event and is read by nothing: it leaves the model
Release(socks, ref) ==
  IF ref # 0 /\ socks[ref].readyState = "CLOSED" THEN RemoveAt(socks, ref) ELSE socks

\* (a variant without the early return)
ConnectCreates_Always(socks, ref) == TRUE

\* (a variant that returns early whenever there is a socket, open or not)
ConnectCreates_OnlyFirst(socks, ref) == ref = 0

\* connect() creates a socket unless the current one is open
ConnectCreates(socks, ref) == ~(ref # 0 /\ socks[ref].readyState = "OPEN")

\* connect(): the sockets and socketRef.current it leaves
Connect(socks, ref) ==
  IF ~ConnectCreates(socks, ref)
    THEN [sockets |-> socks, socketRef |-> ref]
    ELSE LET closed == IF ref # 0
                         THEN [socks EXCEPT ![ref] =
                                 [CloseSocket(@) EXCEPT !.replaced = TRUE]]
                         ELSE socks
             kept == Release(closed, ref)
         IN  [sockets |-> Append(kept, NewSocket), socketRef |-> Len(kept) + 1]

\* the sockets whose close event is still to come
LiveSockets(socks) == {i \in 1..Len(socks) : socks[i].readyState # "CLOSED"}

\* (a variant that keeps the counter)
AttemptsOnOpen_Kept(attempts) == attempts

\* onopen: reconnectAttemptsRef.current = 0
AttemptsOnOpen(attempts) == 0

\* onclose: the close codes after which no reconnect is attempted
IsTerminalCode(code) == code = PolicyViolation \/ code = ServerError

\* (a variant that allows one attempt more)
MayReconnect_Inclusive(attempts) == attempts <= maxReconnectAttempts

\* onclose: reconnectAttemptsRef.current < maxReconnectAttempts
MayReconnect(attempts) == attempts < maxReconnectAttempts

Min(a, b) == IF a < b THEN a ELSE b

\* (a variant that doubles once too often)
ReconnectDelay_OffByOne(attempts) ==
  Min(baseReconnectDelay * 2 ^ attempts, maxReconnectDelay)

\* onclose: Math.min(baseReconnectDelay * Math.pow(2, attempts - 1), 30000),
\* attempts being the counter after its increment
ReconnectDelay(attempts) ==
  Min(baseReconnectDelay * 2 ^ (attempts - 1), maxReconnectDelay)

----------------------------------------------------------------------------
(* Objects keyed by username: { ...prev, [key]: value } and prev[key] || dflt *)

EmptyObject == [k \in {} |-> 0]

\* (a variant without the spread of prev)
Put_Alone(obj, key, value) == [k \in {key} |-> value]

Put(obj, key, value) ==
  [k \in DOMAIN obj \cup {key} |-> IF k = key THEN value ELSE obj[k]]

GetOr(obj, key, dflt) == IF key \in DOMAIN obj THEN obj[key] ELSE dflt

----------------------------------------------------------------------------
(* Messages and their logs *)

\* new Date(timestamp).getTime() of the ISO timestamps the server writes, in
\* milliseconds after 2024-01-01T00:00:00Z; the third names the instant of
\* the first in another time zone
DateGetTime(timestamp) ==
  CASE timestamp = "2024-01-01T00:00:01Z" -> 1000
    [] timestamp = "2024-01-01T00:00:02Z" -> 2000
    [] timestamp = "2024-01-01T01:00:01+01:00" -> 1000

\* the comparator of the sorts: (a, b) => getTime(a) - getTime(b)
CompareTimestamp(a, b) == DateGetTime(a.timestamp) - DateGetTime(b.timestamp)

\* one step of a stable sort: m goes after every entry that is not later
InsertByTimestamp(s, m) ==
  LET k == Cardinality({i \in 1..Len(s) : CompareTimestamp(s[i], m) <= 0})
  IN  SubSeq(s, 1, k) \o <<m>> \o SubSeq(s, k + 1, Len(s))

RECURSIVE StableSort(_)
StableSort(s) ==
  IF s = <<>> THEN <<>>
  ELSE InsertByTimestamp(StableSort(SubSeq(s, 1, Len(s) - 1)), s[Len(s)])

\* (a variant that leaves the order of arrival)
SortByTimestamp_Unsorted(s) == s

\* messages.sort((a, b) => new Date(a.timestamp).getTime() - ...): Array.sort
\* is stable
SortByTimestamp(s) == StableSort(s)

\* prevMessages.find(m => m.id === payload.id)
FindById(log, id) == \E i \in 1..Len(log) : log[i].id = id

\* (a variant that appends without looking for the id)
LiveAppend_NoFind(prevMessages, payload) ==
  SortByTimestamp(Append(prevMessages, payload))

\* the live append of a chat, dm or dm_receipt payload to a log
LiveAppend(prevMessages, payload) ==
  IF FindById(prevMessages, payload.id)
    THEN prevMessages
    ELSE SortByTimestamp(Append(prevMessages, payload))

\* Map.prototype.set: a key already present keeps its place and takes the
\* new value, a new key goes last
MapSet(entries, msg) ==
  IF FindById(entries, msg.id)
    THEN [k \in 1..Len(entries) |->
            IF entries[k].id = msg.id THEN msg ELSE entries[k]]
    ELSE Append(entries, msg)

\* new Map(all.map(msg => [msg.id, msg])): the entries are set in order
RECURSIVE MapOf(_)
MapOf(all) ==
  IF all = <<>> THEN <<>>
  ELSE MapSet(MapOf(SubSeq(all, 1, Len(all) - 1)), all[Len(all)])

\* (a variant that keeps every entry)
UniqueById_KeepAll(all) == all

\* Array.from(new Map(all.map(msg => [msg.id, msg])).values())
UniqueById(all) == MapOf(all)

\* (a variant that spreads the log before the batch)
BulkMerge_PrevFirst(olderMessages, prevMessages) ==
  SortByTimestamp(UniqueById(prevMessages \o olderMessages))

\* the merge of loadOlderGlobalMessages and loadOlderDirectMessages
BulkMerge(olderMessages, prevMessages) ==
  SortByTimestamp(UniqueById(olderMessages \o prevMessages))

\* the value undefined as an entry of a log: what message.payload is when the
\* frame has no payload; it is no message and equals none
UndefinedEntry ==
  [id |-> 0, sender |-> Null, timestamp |-> "undefined", target |-> Null,
   from_user |-> Null]

\* prevMessages.find(m => m.id === message.payload.id) throws a TypeError:
\* the callback reads m.id and then message.payload.id for each entry up to
\* the first match
FindThrows(prevMessages, payload) ==
  \E k \in 1..Len(prevMessages) :
    /\ prevMessages[k] = UndefinedEntry \/ payload = UndefinedEntry
    /\ \A j \in 1..(k - 1) : prevMessages[j].id # payload.id

\* allMessages.map(msg => [msg.id, msg]) throws a TypeError
MapThrows(all) == \E k \in 1..Len(all) : all[k] = UndefinedEntry

\* setDirectMessages of the onmessage handler
LiveAppendDirect(prevDms, otherUser, dmPayload) ==
  LET userDms == GetOr(prevDms, otherUser, <<>>)
  IN  IF FindById(userDms, dmPayload.id)
        THEN prevDms
        ELSE Put(prevDms, otherUser, LiveAppend(userDms, dmPayload))

\* setDirectMessages of loadOlderDirectMessages
BulkMergeDirect(prevDms, username, olderMessages) ==
  Put(prevDms, username, BulkMerge(olderMessages, GetOr(prevDms, username, <<>>)))

\* The server gives each message one id and one timestamp; ids are not in
\* the order of the timestamps, and two ids share an instant
TimestampOf(id) ==
  CASE id % 3 = 1 -> "2024-01-01T00:00:02Z"
    [] id % 3 = 2 -> "2024-01-01T00:00:01Z"
    [] id % 3 = 0 -> "2024-01-01T01:00:01+01:00"

ChatPayload(id, timestamp) ==
  [id |-> id, sender |-> Bob, timestamp |-> timestamp, target |-> Null,
   from_user |-> Null]

\* the messages of the global channel, as the history endpoint returns them
ChatPayloads == {ChatPayload(i, TimestampOf(i)) : i \in 1..MaxId}

\* the payloads of chat frames: message 1 is also seen carrying another
\* timestamp
LiveChatPayloads == ChatPayloads \cup {ChatPayload(1, "2024-01-01T00:00:01Z")}

\* in the conversation with a peer the messages of odd id are the peer's
\* and those of even id are the local user's
DmPayloads ==
  {[id |-> i, sender |-> p, timestamp |-> TimestampOf(i), target |-> Me,
    from_user |-> p] : i \in {j \in 1..MaxId : j % 2 = 1}, p \in Peers}

\* a dm_receipt names the peer in target; one arrives without a target
ReceiptPayloads ==
  {[id |-> i, sender |-> Me, timestamp |-> TimestampOf(i), target |-> p,
    from_user |-> Null] : i \in {j \in 1..MaxId : j % 2 = 0}, p \in Peers \cup {Null}}

\* the messages of the conversation with one peer, as the history endpoint
\* returns them
ConversationPayloads(peer) ==
  {m \in DmPayloads : m.from_user = peer} \cup {m \in ReceiptPayloads : m.target = peer}

\* the batches a caller hands to loadOlder...: any order, repeats included
Batches(payloads) == UNION {[1..n -> payloads] : n \in 0..MaxBatch}

\* the batches that hold no message twice: a page of history
Pages(payloads) ==
  {b \in Batches(payloads) : \A i, j \in 1..Len(b) : i # j => b[i].id # b[j].id}

----------------------------------------------------------------------------
(* The roster *)

CharRank(c) ==
  CASE c = "b" -> 2 [] c = "e" -> 5 [] c = "m" -> 13 [] c = "o" -> 15 [] c = "y" -> 25

\* a.localeCompare(b) on usernames of lower-case letters
RECURSIVE LocaleCompare(_, _)
LocaleCompare(a, b) ==
  IF a = <<>> /\ b = <<>> THEN 0
  ELSE IF a = <<>> THEN -1
  ELSE IF b = <<>> THEN 1
  ELSE IF CharRank(Head(a)) < CharRank(Head(b)) THEN -1
  ELSE IF CharRank(Head(a)) > CharRank(Head(b)) THEN 1
  ELSE LocaleCompare(Tail(a), Tail(b))

\* (a variant that compares the usernames only)
CompareUsers_NameOnly(a, b) == LocaleCompare(a.username, b.username)

\* the comparator of the presence sort
CompareUsers(a, b) ==
  IF a.online /\ ~b.online THEN -1
  ELSE IF ~a.online /\ b.online THEN 1
  ELSE LocaleCompare(a.username, b.username)

InsertUser(s, u) ==
  LET k == Cardinality({i \in 1..Len(s) : CompareUsers(s[i], u) <= 0})
  IN  SubSeq(s, 1, k) \o <<u>> \o SubSeq(s, k + 1, Len(s))

\* message.users.sort(...)
RECURSIVE SortUsers(_)
SortUsers(users) ==
  IF users = <<>> THEN <<>>
  ELSE InsertUser(SortUsers(SubSeq(users, 1, Len(users) - 1)), users[Len(users)])

\* the presence frames the server sends
PresenceFrames ==
  {<<[username |-> Bobby, online |-> FALSE], [username |-> Bob, online |-> TRUE]>>,
   <<[username |-> Bob, online |-> FALSE], [username |-> Bobby, online |-> TRUE]>>}

\* every roster of one to three distinct users, in any order, each online
\* or offline
RosterFrames ==
  LET Users == {Me, Bob, Bobby}
      Entries == {[username |-> u, online |-> x] : u \in Users, x \in BOOLEAN}
  IN  {f \in UNION {[1..n -> Entries] : n \in 1..3} :
         \A i, j \in 1..Len(f) : i # j => f[i].username # f[j].username}

----------------------------------------------------------------------------
(* The unread ledger (lib/indexedDb) and the unread policy *)

\* getUnreadCount: 0 when the peer has no entry
Count(counts, peer) == GetOr(counts, peer, 0)

\* (a variant whose increment writes 1 whatever the count was)
LedgerApply_LostUpdate(l, op) ==
  CASE op.kind = "increment" -> Put(l, op.peer, 1)
    [] op.kind = "clear" -> Put(l, op.peer, 0)
    [] op.kind = "getAll" -> l

\* the ledger after an operation; each operation is one atomic step
\* (each call completes fully before the next is observed)
LedgerApply(l, op) ==
  CASE op.kind = "increment" -> Put(l, op.peer, Count(l, op.peer) + 1)
    [] op.kind = "clear" -> Put(l, op.peer, 0)
    [] op.kind = "getAll" -> l

\* what the operation's promise resolves to
LedgerResult(l, op) ==
  CASE op.kind = "increment" -> Count(l, op.peer) + 1
    [] op.kind = "clear" -> 0
    [] op.kind = "getAll" -> l

\* the ledgers an earlier session can have left behind
InitLedgers == {EmptyObject, Put(EmptyObject, Bob, 1)}

\* isActiveChat
IsActiveChat(username, path, hidden) ==
  Includes(path, DmPath(username)) /\ ~hidden

\* onmessage: the ledger operation issued for a dm addressed to the local
\* user.  An operation also records whether a dm issued it while the page was
\* hidden, which the properties read and the program does not.
UnreadPolicyOp(sender, path, hidden) ==
  IF hidden \/ ~IsActiveChat(sender, path, hidden)
    THEN [kind |-> "increment", peer |-> sender, hidden |-> hidden]
    ELSE [kind |-> "clear", peer |-> sender, hidden |-> hidden]

\* markDmsAsRead: await clearUnreadCount(username)
MarkReadOp(username) == [kind |-> "clear", peer |-> username, hidden |-> FALSE]

\* onopen: getAllUnreadCounts()
SeedOp == [kind |-> "getAll", peer |-> Null, hidden |-> FALSE]

\* (a variant that does not look at the page)
ShowNotification_WhenVisible(permission, hidden) == permission = "granted"

\* showNotification: a Notification is created
ShowNotification(permission, hidden) == permission = "granted" /\ hidden

\* (a variant whose clear leaves the count in memory)
ThenCallback_ClearForgotten(prev, op, result) ==
  CASE op.kind = "getAll" -> result
    [] op.kind = "increment" -> Put(prev, op.peer, result)
    [] op.kind = "clear" -> prev

\* (a variant that drops the snapshot of getAll)
ThenCallback_SeedDropped(prev, op, result) ==
  CASE op.kind = "getAll" -> prev
    [] op.kind = "increment" -> Put(prev, op.peer, result)
    [] op.kind = "clear" -> Put(prev, op.peer, 0)

\* the continuations: setUnreadCounts after the operation's promise resolved
ThenCallback(prev, op, result) ==
  CASE op.kind = "getAll" -> result
    [] op.kind = "increment" -> Put(prev, op.peer, result)
    [] op.kind = "clear" -> Put(prev, op.peer, 0)

PendingIncrements(queue, peer) ==
  Cardinality({i \in 1..Len(queue) :
                 queue[i].kind = "increment" /\ queue[i].peer = peer})

----------------------------------------------------------------------------
(* The state after construction: usePresence() before its effect has run *)

InitWith(durable) ==
  /\ mounted = FALSE
  /\ sockets = <<>>
  /\ socketRef = 0
  /\ reconnectAttemptsRef = 0
  /\ timers = <<>>
  /\ isConnected = FALSE
  /\ onlineUsers = <<>>
  /\ globalChatMessages = <<>>
  /\ directMessages = EmptyObject
  /\ unreadCounts = EmptyObject
  /\ currentUsernameRef = Null
  /\ ledger = durable
  /\ pending = <<>>
  /\ documentHidden = FALSE
  /\ pathname = <<"/library">>
  /\ notificationPermission = "default"
  /\ notifications = <<>>
  /\ sent = <<>>
  /\ hist = [mounts |-> 0,             \* runs of the effect so far
             failedTerminal |-> FALSE, \* a terminal close was handled since the last mount
             failures |-> 0,           \* non-terminal closes handled since the last open or teardown
             scheduled |-> 0,          \* reconnects scheduled since the last open or teardown
             recovered |-> FALSE,      \* the last open came after two or more consecutive failures
             noop |-> FALSE,           \* connect() has found the current socket open
             snapshot |-> <<>>,        \* the users of the frame the roster was last set from
             seeded |-> FALSE,         \* a getAll snapshot has been applied
             repeated |-> FALSE,       \* a message id has arrived that its log already held
             raced |-> Null,           \* the peer whose markDmsAsRead, the last operation issued,
                                       \* found an increment of that peer pending
             outcomes |-> <<>>,        \* how each call of a send command ended, in call order
             returned |-> <<>>,        \* what each call of a send command returned, in call order
             invalid |-> 0,            \* frames received that are not frames of the protocol
             thrown |-> FALSE,         \* an error has escaped the try/catch of onmessage
             expect |-> [p \in Peers |-> Count(durable, p)]]
                                       \* the counts after the ledger operations issued so far,
                                       \* applied in the order of their issue

Init == \E durable \in InitLedgers : InitWith(durable)

----------------------------------------------------------------------------
(* The effect of the hook: connect() on mount, teardown on cleanup *)

EffectMount ==
  /\ ~mounted
  /\ hist.mounts < MaxMounts
  /\ mounted' = TRUE
  /\ sockets' = Connect(sockets, socketRef).sockets
  /\ socketRef' = Connect(sockets, socketRef).socketRef
  /\ hist' = [hist EXCEPT !.mounts = @ + 1, !.failedTerminal = FALSE]
  /\ UNCHANGED <<reconnectAttemptsRef, timers, isConnected, onlineUsers, logVars,
                 unreadCounts, currentUsernameRef, ledger, pending, envVars, outVars>>

\* the cleanup: onclose = null, close(), socketRef.current = null, attempts = 0
Teardown(socks, ref) ==
  IF ref # 0
    THEN Release([socks EXCEPT ![ref] = [CloseSocket(@) EXCEPT !.onclose = FALSE]], ref)
    ELSE socks

EffectCleanup ==
  /\ mounted
  /\ mounted' = FALSE
  /\ sockets' = Teardown(sockets, socketRef)
  /\ socketRef' = 0
  /\ reconnectAttemptsRef' = 0
  /\ hist' = [hist EXCEPT !.failedTerminal = FALSE, !.failures = 0, !.scheduled = 0]
  /\ UNCHANGED <<timers, isConnected, onlineUsers, logVars, unreadCounts,
                 currentUsernameRef, ledger, pending, envVars, outVars>>

\* a reconnect timer fires: connect()
TimerFire(k) ==
  /\ k \in 1..Len(timers)
  /\ timers' = RemoveAt(timers, k)
  /\ sockets' = Connect(sockets, socketRef).sockets
  /\ socketRef' = Connect(sockets, socketRef).socketRef
  /\ hist' = [hist EXCEPT !.noop = @ \/ ~ConnectCreates(sockets, socketRef)]
  /\ UNCHANGED <<mounted, reconnectAttemptsRef, isConnected, onlineUsers, logVars,
                 unreadCounts, currentUsernameRef, ledger, pending, envVars, outVars>>

----------------------------------------------------------------------------
(* The socket's events *)

(* what the properties read of a step *)
NoteRepeat(h, again) == IF again THEN [h EXCEPT !.repeated = TRUE] ELSE h

\* a batch repeats an id of the log or of itself
BatchRepeats(olderMessages, prevMessages) ==
  LET all == olderMessages \o prevMessages
  IN  \E i, j \in 1..Len(all) : i < j /\ all[i].id = all[j].id

NoteIssue(h, op) ==
  [h EXCEPT !.expect = IF op.kind = "increment"
                         THEN [@ EXCEPT ![op.peer] = @ + 1]
                         ELSE [@ EXCEPT ![op.peer] = 0],
            !.raced = Null]

\* onopen
SocketOpen(i) ==
  /\ i \in 1..Len(sockets)
  /\ sockets[i].readyState = "CONNECTING"
  /\ Len(pending) < MaxPending
  /\ sockets' = [sockets EXCEPT ![i].readyState = "OPEN"]
  /\ isConnected' = TRUE
  /\ reconnectAttemptsRef' = AttemptsOnOpen(reconnectAttemptsRef)
  /\ pending' = Append(pending, SeedOp)
  /\ hist' = [hist EXCEPT !.failures = 0, !.scheduled = 0, !.recovered = hist.failures >= 2]
  /\ UNCHANGED <<mounted, socketRef, timers, onlineUsers, logVars, unreadCounts,
                 currentUsernameRef, ledger, envVars, outVars>>

\* onclose: what the handler leaves of the attempt counter and the timers
OnClose(attempts, pendingTimers, code) ==
  IF IsTerminalCode(code)
    THEN [attempts |-> attempts, timers |-> pendingTimers]
    ELSE IF MayReconnect(attempts)
      THEN [attempts |-> attempts + 1,
            timers |-> Append(pendingTimers, ReconnectDelay(attempts + 1))]
      ELSE [attempts |-> attempts, timers |-> pendingTimers]

\* the close event of socket i, with the handler when it is still attached
SocketClose(i, code) ==
  /\ i \in 1..Len(sockets)
  /\ sockets[i].readyState # "CLOSED"
  /\ sockets' = IF i = socketRef
                  THEN [sockets EXCEPT ![i].readyState = "CLOSED"]
                  ELSE RemoveAt(sockets, i)
  /\ socketRef' = IF socketRef > i THEN socketRef - 1 ELSE socketRef
  /\ IF sockets[i].onclose
       THEN /\ isConnected' = FALSE
            /\ onlineUsers' = <<>>
            /\ reconnectAttemptsRef' = OnClose(reconnectAttemptsRef, timers, code).attempts
            /\ timers' = OnClose(reconnectAttemptsRef, timers, code).timers
            /\ hist' = IF IsTerminalCode(code)
                         THEN [hist EXCEPT !.failedTerminal = TRUE, !.snapshot = <<>>]
                         ELSE [hist EXCEPT !.failures = @ + 1,
                                           !.scheduled = @ + Len(timers') - Len(timers),
                                           !.snapshot = <<>>]
       ELSE UNCHANGED <<isConnected, onlineUsers, reconnectAttemptsRef, timers, hist>>
  /\ UNCHANGED <<mounted, logVars, unreadCounts, currentUsernameRef,
                 ledger, pending, envVars, outVars>>

\* a connection that was established drops
DropConnection(i, code) ==
  /\ i \in 1..Len(sockets)
  /\ sockets[i].readyState = "OPEN"
  /\ SocketClose(i, code)

\* onmessage, type presence
RecvPresence(i, users) ==
  /\ i \in 1..Len(sockets)
  /\ sockets[i].readyState = "OPEN"
  /\ onlineUsers' = SortUsers(users)
  /\ hist' = [hist EXCEPT !.snapshot = users]
  /\ UNCHANGED <<connVars, logVars, unreadCounts, currentUsernameRef, ledger,
                 pending, envVars, outVars>>

\* onmessage, type chat
RecvChat(i, payload) ==
  /\ i \in 1..Len(sockets)
  /\ sockets[i].readyState = "OPEN"
  /\ IF FindThrows(globalChatMessages, payload)
       THEN /\ globalChatMessages' = globalChatMessages
            /\ hist' = [hist EXCEPT !.thrown = TRUE]
       ELSE /\ globalChatMessages' = LiveAppend(globalChatMessages, payload)
            /\ hist' = NoteRepeat(hist, FindById(globalChatMessages, payload.id))
  /\ UNCHANGED <<connVars, onlineUsers, directMessages, unreadCounts,
                 currentUsernameRef, ledger, pending, envVars, outVars>>

\* a variant that files every frame under its sender
OtherUser_Sender(type, payload) == payload.sender

\* the frames that are not frames of the protocol: a text that is no JSON,
\* a type the handler does not know, and frames of a known type that lack
\* users, payload, or the target of the payload
InvalidFrames ==
  { [parses |-> FALSE, type |-> "", payload |-> FALSE],
    [parses |-> TRUE, type |-> "ping", payload |-> FALSE],
    [parses |-> TRUE, type |-> "presence", payload |-> FALSE],
    [parses |-> TRUE, type |-> "chat", payload |-> FALSE],
    [parses |-> TRUE, type |-> "dm", payload |-> FALSE],
    [parses |-> TRUE, type |-> "dm_receipt", payload |-> TRUE] }

\* how the handler leaves such a frame: JSON.parse or a read of a missing
\* field throws into the catch, the missing target returns early, the
\* branch of chat hands React an updater that reads the payload later, and
\* an unknown type matches no branch
FrameOutcome(frame) ==
  IF ~frame.parses THEN "caught"
  ELSE CASE frame.type = "presence" -> "caught"
         [] frame.type = "chat" -> "updater"
         [] frame.type \in {"dm", "dm_receipt"} ->
              IF frame.payload THEN "returned" ELSE "caught"
         [] OTHER -> "ignored"

\* onmessage with a frame that is not a frame of the protocol
RecvInvalid(i, frame) ==
  /\ i \in 1..Len(sockets)
  /\ sockets[i].readyState = "OPEN"
  /\ hist.invalid < MaxInvalid
  /\ IF FrameOutcome(frame) = "updater"
       THEN IF FindThrows(globalChatMessages, UndefinedEntry)
              THEN /\ globalChatMessages' = globalChatMessages
                   /\ hist' = [hist EXCEPT !.invalid = @ + 1, !.thrown = TRUE]
              ELSE /\ globalChatMessages' =
                        LiveAppend(globalChatMessages, UndefinedEntry)
                   /\ hist' = [hist EXCEPT !.invalid = @ + 1]
       ELSE /\ globalChatMessages' = globalChatMessages
            /\ hist' = [hist EXCEPT !.invalid = @ + 1]
  /\ UNCHANGED <<connVars, onlineUsers, directMessages, unreadCounts,
                 currentUsernameRef, ledger, pending, envVars, outVars>>

\* onmessage, type dm or dm_receipt: the other user of the frame
OtherUser(type, payload) == IF type = "dm" THEN payload.from_user ELSE payload.target

\* onmessage, type dm: the frame is an inbound dm addressed to the local user
IssuesUnreadOp(type, payload, currentUser) ==
  type = "dm" /\ payload.target = currentUser

\* onmessage, type dm or dm_receipt
RecvDirect(i, type, payload) ==
  /\ i \in 1..Len(sockets)
  /\ sockets[i].readyState = "OPEN"
  /\ IF OtherUser(type, payload) = Null
       THEN UNCHANGED <<directMessages, pending, hist>>
       ELSE LET again == FindById(GetOr(directMessages, OtherUser(type, payload), <<>>),
                                  payload.id)
            IN
            /\ directMessages' =
                 LiveAppendDirect(directMessages, OtherUser(type, payload), payload)
            /\ IF IssuesUnreadOp(type, payload, currentUsernameRef)
                 THEN LET op == UnreadPolicyOp(payload.from_user, pathname, documentHidden)
                      IN  /\ Len(pending) < MaxPending
                          /\ op.kind = "increment" =>
                               hist.expect[op.peer] < MaxUnread
                          /\ pending' = Append(pending, op)
                          /\ hist' = NoteRepeat(NoteIssue(hist, op), again)
                 ELSE /\ pending' = pending
                      /\ hist' = NoteRepeat(hist, again)
  /\ UNCHANGED <<connVars, onlineUsers, globalChatMessages, unreadCounts,
                 currentUsernameRef, ledger, envVars, outVars>>

----------------------------------------------------------------------------
(* The commands of the hook.  The components that use the hook call them  *)
(* from their own effects and handlers, which run once the hook's effect   *)
(* has run.                                                                *)

LoadOlderGlobalMessages(olderMessages) ==
  /\ mounted
  /\ IF MapThrows(olderMessages \o globalChatMessages)
       THEN /\ globalChatMessages' = globalChatMessages
            /\ hist' = [hist EXCEPT !.thrown = TRUE]
       ELSE /\ globalChatMessages' = BulkMerge(olderMessages, globalChatMessages)
            /\ hist' = NoteRepeat(hist, BatchRepeats(olderMessages, globalChatMessages))
  /\ UNCHANGED <<connVars, onlineUsers, directMessages, unreadCounts,
                 currentUsernameRef, ledger, pending, envVars, outVars>>

LoadOlderDirectMessages(username, olderMessages) ==
  /\ mounted
  /\ directMessages' = BulkMergeDirect(directMessages, username, olderMessages)
  /\ hist' = NoteRepeat(hist, BatchRepeats(olderMessages,
                                           GetOr(directMessages, username, <<>>)))
  /\ UNCHANGED <<connVars, onlineUsers, globalChatMessages, unreadCounts,
                 currentUsernameRef, ledger, pending, envVars, outVars>>

SetCurrentUser(username) ==
  /\ mounted
  /\ currentUsernameRef # username
  /\ currentUsernameRef' = username
  /\ UNCHANGED <<connVars, onlineUsers, logVars, unreadCounts, ledger, pending,
                 envVars, outVars, hist>>

\* socketRef.current && socketRef.current.readyState === WebSocket.OPEN
IsOpen(socks, ref) == ref # 0 /\ socks[ref].readyState = "OPEN"

\* a username that is neither null nor the empty string
Truthy(username) == username # Null /\ username # <<>>

\* (a variant that sends on whatever socket there is)
SendGlobalOutcome_AnySocket(socks, ref) ==
  IF ref # 0 THEN "Sent" ELSE "NotConnected"

\* sendGlobalChatMessage: the frame is sent, or the call only logs an error
SendGlobalOutcome(socks, ref) ==
  IF IsOpen(socks, ref) THEN "Sent" ELSE "NotConnected"

\* (a variant without the check of a message to oneself)
SendDirectOutcome_SelfAllowed(socks, ref, recipient, currentUser) ==
  IF ~IsOpen(socks, ref) THEN "NotConnected"
  ELSE IF ~Truthy(currentUser) THEN "NoIdentity"
  ELSE "Sent"

\* sendDirectMessage: the frame is sent, or the call only logs why not
SendDirectOutcome(socks, ref, recipient, currentUser) ==
  IF ~IsOpen(socks, ref) THEN "NotConnected"
  ELSE IF ~Truthy(currentUser) THEN "NoIdentity"
  ELSE IF recipient = currentUser THEN "Self"
  ELSE "Sent"

\* what a send command returns to its caller: both are arrow functions whose
\* every path ends in a bare return or at the end of the body
SendReturn(outcome) == "undefined"

\* the content of a call: the texts of different calls differ, the n-th call
\* carries n
NextContent(h) == Len(h.outcomes) + 1

\* sendGlobalChatMessage(content)
SendGlobalChatMessage(content) ==
  /\ mounted
  /\ Len(hist.outcomes) < MaxCalls
  /\ content = NextContent(hist)
  /\ sent' = IF SendGlobalOutcome(sockets, socketRef) = "Sent"
               THEN Append(sent, [type |-> "chat", to |-> Null, content |-> content])
               ELSE sent
  /\ hist' = [hist EXCEPT
                 !.outcomes = Append(@, SendGlobalOutcome(sockets, socketRef)),
                 !.returned = Append(@, SendReturn(SendGlobalOutcome(sockets, socketRef)))]
  /\ UNCHANGED <<connVars, onlineUsers, logVars, unreadCounts, currentUsernameRef,
                 ledger, pending, envVars, notificationPermission, notifications>>

\* sendDirectMessage(recipient, content)
SendDirectMessage(recipient, content) ==
  /\ mounted
  /\ Len(hist.outcomes) < MaxCalls
  /\ content = NextContent(hist)
  /\ sent' = IF SendDirectOutcome(sockets, socketRef, recipient, currentUsernameRef) = "Sent"
               THEN Append(sent, [type |-> "dm", to |-> recipient, content |-> content])
               ELSE sent
  /\ hist' = [hist EXCEPT
                 !.outcomes =
                   Append(@, SendDirectOutcome(sockets, socketRef, recipient,
                                               currentUsernameRef)),
                 !.returned =
                   Append(@, SendReturn(SendDirectOutcome(sockets, socketRef, recipient,
                                                          currentUsernameRef)))]
  /\ UNCHANGED <<connVars, onlineUsers, logVars, unreadCounts, currentUsernameRef,
                 ledger, pending, envVars, notificationPermission, notifications>>

\* markDmsAsRead: the clear is issued; its continuation sets the count to 0
MarkDmsAsRead(username) ==
  /\ mounted
  /\ Len(pending) < MaxPending
  /\ pending' = Append(pending, MarkReadOp(username))
  /\ hist' = [NoteIssue(hist, MarkReadOp(username)) EXCEPT
               !.raced = IF PendingIncrements(pending, username) > 0
                           THEN username ELSE Null]
  /\ UNCHANGED <<connVars, onlineUsers, logVars, unreadCounts, currentUsernameRef,
                 ledger, envVars, outVars>>

\* the oldest pending ledger operation completes and its continuation runs
LedgerComplete ==
  /\ pending # <<>>
  /\ ledger' = LedgerApply(ledger, Head(pending))
  /\ unreadCounts' =
       ThenCallback(unreadCounts, Head(pending), LedgerResult(ledger, Head(pending)))
  /\ pending' = Tail(pending)
  /\ notifications' =
       IF /\ Head(pending).kind = "increment"
          /\ ShowNotification(notificationPermission, documentHidden)
         THEN Append(notifications, Head(pending).peer)
         ELSE notifications
  /\ hist' = IF Head(pending).kind = "getAll" THEN [hist EXCEPT !.seeded = TRUE] ELSE hist
  /\ UNCHANGED <<connVars, onlineUsers, logVars, currentUsernameRef, envVars,
                 notificationPermission, sent>>

\* requestNotificationPermission: the user answers the prompt, which is shown
\* only while the permission is undecided
RequestNotificationPermission(answer) ==
  /\ mounted
  /\ notificationPermission' =
       IF notificationPermission \notin {"granted", "denied"}
         THEN answer
         ELSE notificationPermission
  /\ UNCHANGED <<connVars, onlineUsers, logVars, unreadCounts, currentUsernameRef,
                 ledger, pending, envVars, notifications, sent, hist>>

----------------------------------------------------------------------------
(* The page *)

SetDocumentHidden(hidden) ==
  /\ documentHidden # hidden
  /\ documentHidden' = hidden
  /\ UNCHANGED <<connVars, onlineUsers, logVars, unreadCounts, currentUsernameRef,
                 ledger, pending, pathname, outVars, hist>>

Navigate(path) ==
  /\ pathname # path
  /\ pathname' = path
  /\ UNCHANGED <<connVars, onlineUsers, logVars, unreadCounts, currentUsernameRef,
                 ledger, pending, documentHidden, outVars, hist>>

----------------------------------------------------------------------------
(* The connection: mounts, teardowns, socket events and reconnect timers *)

NextConn ==
  \/ EffectMount
  \/ EffectCleanup
  \/ \E k \in 1..Len(timers) : TimerFire(k)
  \/ \E i \in 1..Len(sockets) : SocketOpen(i)
  \/ \E i \in 1..Len(sockets), code \in CloseCodes : SocketClose(i, code)
  \/ \E i \in 1..Len(sockets), users \in PresenceFrames : RecvPresence(i, users)
  \/ LedgerComplete

SpecConn == InitWith(EmptyObject) /\ [][NextConn]_vars

----------------------------------------------------------------------------
(* The recovery: one activation that is never torn down.  A timer set    *)
(* with setTimeout fires, a connecting socket opens unless it is closed  *)
(* first, and an operation of the ledger completes.                      *)

NextReconnect ==
  \/ EffectMount
  \/ \E k \in 1..Len(timers) : TimerFire(k)
  \/ \E i \in 1..Len(sockets) : SocketOpen(i)
  \/ \E i \in 1..Len(sockets), code \in CloseCodes : SocketClose(i, code)
  \/ LedgerComplete

SpecReconnect ==
  /\ InitWith(EmptyObject)
  /\ [][NextReconnect]_vars
  /\ WF_vars(\E k \in 1..Len(timers) : TimerFire(k))
  /\ WF_vars(\E i \in 1..Len(sockets) : SocketOpen(i))
  /\ WF_vars(LedgerComplete)

----------------------------------------------------------------------------
(* The roster: presence snapshots while the connection drops and returns *)

NextRoster ==
  \/ EffectMount
  \/ \E i \in 1..Len(sockets) : SocketOpen(i)
  \/ \E i \in 1..Len(sockets), code \in CloseCodes : DropConnection(i, code)
  \/ \E k \in 1..Len(timers) : TimerFire(k)
  \/ \E i \in 1..Len(sockets), users \in RosterFrames : RecvPresence(i, users)
  \/ LedgerComplete

SpecRoster == InitWith(EmptyObject) /\ [][NextRoster]_vars

----------------------------------------------------------------------------
(* The logs: live frames on an open socket and bulk history loads *)

NextLog ==
  \/ EffectMount
  \/ \E i \in 1..Len(sockets) : SocketOpen(i)
  \/ \E i \in 1..Len(sockets), payload \in LiveChatPayloads : RecvChat(i, payload)
  \/ \E i \in 1..Len(sockets), payload \in DmPayloads : RecvDirect(i, "dm", payload)
  \/ \E i \in 1..Len(sockets), payload \in ReceiptPayloads :
       RecvDirect(i, "dm_receipt", payload)
  \/ \E olderMessages \in Batches(ChatPayloads) : LoadOlderGlobalMessages(olderMessages)
  \/ \E username \in Peers :
       \E olderMessages \in Batches(ConversationPayloads(username)) :
         LoadOlderDirectMessages(username, olderMessages)
  \/ LedgerComplete

SpecLog == InitWith(EmptyObject) /\ [][NextLog]_vars

----------------------------------------------------------------------------
(* The history loads: pages merged into logs that live frames also feed *)

NextMerge ==
  \/ EffectMount
  \/ \E i \in 1..Len(sockets) : SocketOpen(i)
  \/ \E i \in 1..Len(sockets), payload \in LiveChatPayloads : RecvChat(i, payload)
  \/ \E olderMessages \in Batches(ChatPayloads) : LoadOlderGlobalMessages(olderMessages)
  \/ \E olderMessages \in Batches(ConversationPayloads(Bob)) :
       LoadOlderDirectMessages(Bob, olderMessages)
  \/ LedgerComplete

SpecMerge == InitWith(EmptyObject) /\ [][NextMerge]_vars

----------------------------------------------------------------------------
(* The conversations: dms, receipts and history pages of a signed-in user *)

NextDirect ==
  \/ EffectMount
  \/ \E i \in 1..Len(sockets) : SocketOpen(i)
  \/ SetCurrentUser(Me)
  \/ \E i \in 1..Len(sockets), payload \in DmPayloads : RecvDirect(i, "dm", payload)
  \/ \E i \in 1..Len(sockets), payload \in ReceiptPayloads :
       RecvDirect(i, "dm_receipt", payload)
  \/ \E username \in Peers :
       \E olderMessages \in Pages(ConversationPayloads(username)) :
         LoadOlderDirectMessages(username, olderMessages)
  \/ LedgerComplete

SpecDirect == InitWith(EmptyObject) /\ [][NextDirect]_vars

----------------------------------------------------------------------------
(* The frames: frames of the protocol among frames that are not *)

NextFrames ==
  \/ EffectMount
  \/ \E i \in 1..Len(sockets) : SocketOpen(i)
  \/ \E i \in 1..Len(sockets), frame \in InvalidFrames : RecvInvalid(i, frame)
  \/ \E i \in 1..Len(sockets), users \in PresenceFrames : RecvPresence(i, users)
  \/ \E i \in 1..Len(sockets), payload \in LiveChatPayloads : RecvChat(i, payload)
  \/ \E i \in 1..Len(sockets), payload \in DmPayloads : RecvDirect(i, "dm", payload)
  \/ \E olderMessages \in Pages(ChatPayloads) : LoadOlderGlobalMessages(olderMessages)
  \/ LedgerComplete

SpecFrames == InitWith(EmptyObject) /\ [][NextFrames]_vars

----------------------------------------------------------------------------
(* The logs of one activation: frames and history loads while the *)
(* connection drops and returns                                    *)

NextSurvive ==
  \/ EffectMount
  \/ \E i \in 1..Len(sockets) : SocketOpen(i)
  \/ \E i \in 1..Len(sockets), code \in CloseCodes : DropConnection(i, code)
  \/ \E k \in 1..Len(timers) : TimerFire(k)
  \/ \E i \in 1..Len(sockets), payload \in LiveChatPayloads : RecvChat(i, payload)
  \/ \E i \in 1..Len(sockets), payload \in {m \in DmPayloads : m.from_user = Bob} :
       RecvDirect(i, "dm", payload)
  \/ \E olderMessages \in Batches(ChatPayloads) : LoadOlderGlobalMessages(olderMessages)
  \/ \E olderMessages \in Batches(ConversationPayloads(Bob)) :
       LoadOlderDirectMessages(Bob, olderMessages)
  \/ LedgerComplete

SpecSurvive == InitWith(EmptyObject) /\ [][NextSurvive]_vars

----------------------------------------------------------------------------
(* The unread policy: inbound dms while the page and the route change *)

NextPolicy ==
  \/ EffectMount
  \/ \E i \in 1..Len(sockets) : SocketOpen(i)
  \/ \E username \in {Me, Null} : SetCurrentUser(username)
  \/ \E i \in 1..Len(sockets), payload \in DmPayloads : RecvDirect(i, "dm", payload)
  \/ \E hidden \in BOOLEAN : SetDocumentHidden(hidden)
  \/ \E path \in Paths : Navigate(path)
  \/ LedgerComplete

SpecPolicy == Init /\ [][NextPolicy]_vars

----------------------------------------------------------------------------
(* The notifications: inbound dms while the page is hidden and shown again *)

NextNotify ==
  \/ EffectMount
  \/ \E i \in 1..Len(sockets) : SocketOpen(i)
  \/ SetCurrentUser(Me)
  \/ \E answer \in {"granted", "denied"} : RequestNotificationPermission(answer)
  \/ \E i \in 1..Len(sockets), payload \in DmPayloads : RecvDirect(i, "dm", payload)
  \/ \E hidden \in BOOLEAN : SetDocumentHidden(hidden)
  \/ LedgerComplete

SpecNotify == InitWith(EmptyObject) /\ [][NextNotify]_vars

----------------------------------------------------------------------------
(* The unread counts: dms, markDmsAsRead, reconnects and the ledger *)

\* the first message of each peer
FirstDmPayloads == {m \in DmPayloads : m.id = 1}

NextUnread ==
  \/ EffectMount
  \/ \E i \in 1..Len(sockets) : SocketOpen(i)
  \/ \E i \in 1..Len(sockets), code \in CloseCodes : DropConnection(i, code)
  \/ \E k \in 1..Len(timers) : TimerFire(k)
  \/ SetCurrentUser(Me)
  \/ \E i \in 1..Len(sockets), payload \in FirstDmPayloads : RecvDirect(i, "dm", payload)
  \/ \E username \in Peers : MarkDmsAsRead(username)
  \/ \E path \in Paths : Navigate(path)
  \/ LedgerComplete

SpecUnread == Init /\ [][NextUnread]_vars

----------------------------------------------------------------------------
(* The outbound commands: sends while the connection comes and goes and the *)
(* identity is set and cleared                                              *)

\* the recipients a caller names: a peer and the local user
Recipients == {Bob, Me}

NextSend ==
  \/ EffectMount
  \/ \E i \in 1..Len(sockets) : SocketOpen(i)
  \/ \E i \in 1..Len(sockets), code \in CloseCodes : DropConnection(i, code)
  \/ \E k \in 1..Len(timers) : TimerFire(k)
  \/ \E username \in {Me, Null} : SetCurrentUser(username)
  \/ \E content \in 1..MaxCalls : SendGlobalChatMessage(content)
  \/ \E recipient \in Recipients, content \in 1..MaxCalls :
       SendDirectMessage(recipient, content)
  \/ LedgerComplete

SpecSend == InitWith(EmptyObject) /\ [][NextSend]_vars

----------------------------------------------------------------------------
(* Properties of the logs *)

NoDuplicateIds(log) ==
  \A i, j \in 1..Len(log) : i # j => log[i].id # log[j].id

\* C1: after any sequence of live chat, dm and dm_receipt frames and of bulk
\* loads, the same id arriving again through either path included, the global
\* log and every direct log hold at most one entry per message id.
C1_NoDuplicateIds ==
  /\ NoDuplicateIds(globalChatMessages)
  /\ \A p \in DOMAIN directMessages : NoDuplicateIds(directMessages[p])

\* ids have arrived again, and the global log and a direct log hold two messages
C1_Witness ==
  /\ hist.repeated
  /\ Len(globalChatMessages) >= 2
  /\ \E p \in DOMAIN directMessages : Len(directMessages[p]) >= 2

SortedByTime(log) ==
  \A i \in 1..(Len(log) - 1) :
    DateGetTime(log[i].timestamp) <= DateGetTime(log[i + 1].timestamp)

\* C2: after every live append and every bulk merge, whatever the order of
\* arrival, the global log and every direct log are sorted non-decreasing by
\* the instant of the timestamp.
C2_SortedByTimestamp ==
  /\ SortedByTime(globalChatMessages)
  /\ \A p \in DOMAIN directMessages : SortedByTime(directMessages[p])

\* the later id is the earlier message: both kinds of log hold message 2
\* before message 1
C2_Witness ==
  /\ Len(globalChatMessages) >= 2
  /\ globalChatMessages[1].id = 2 /\ globalChatMessages[2].id = 1
  /\ \E p \in DOMAIN directMessages :
       /\ Len(directMessages[p]) >= 2
       /\ directMessages[p][1].id = 2 /\ directMessages[p][2].id = 1

----------------------------------------------------------------------------
(* Properties of the connection *)

Created(socks, socks2) ==
  Cardinality(LiveSockets(socks2)) > Cardinality(LiveSockets(socks))

\* C3: after a close event with code 1008 or 1011 no reconnect timer is
\* pending, the client creates no socket on its own and the connection stays
\* not connected.
C3_TerminalCloseStopsReconnect ==
  [][hist'.failedTerminal =>
       /\ ~isConnected'
       /\ ~hist.failedTerminal => Len(timers') = Len(timers)
       /\ hist.failedTerminal => ~Created(sockets, sockets')]_vars

\* C4: teardown() cancels the pending reconnect: between the teardown and the
\* next run of the effect no socket is created.
C4_TeardownCancelsReconnect ==
  [][(~mounted /\ ~mounted') => ~Created(sockets, sockets')]_vars

\* C5: the close event of a socket that connect() replaced changes neither
\* the attempt counter, nor the timers, nor the connectivity flag, nor the
\* roster (its close handler was detached).
C5_ReplacedSocketCloseIsSilent ==
  [][\A i \in 1..Len(sockets) :
       (sockets[i].replaced /\ sockets' = RemoveAt(sockets, i)) =>
         /\ reconnectAttemptsRef' = reconnectAttemptsRef
         /\ timers' = timers
         /\ isConnected' = isConnected
         /\ onlineUsers' = onlineUsers]_vars

\* min(1000 * 2^(n-1), 30000) for n = 1..10
ExpectedDelays ==
  <<1000, 2000, 4000, 8000, 16000, 30000, 30000, 30000, 30000, 30000>>

\* C6: the reconnect scheduled by the n-th consecutive non-terminal close
\* since the last open (or teardown, which starts anew), n = 1..10, has the
\* delay min(1000 * 2^(n-1), 30000) ms.
C6_BackoffDelay ==
  [][Len(timers') > Len(timers) =>
       /\ hist'.failures \in 1..10
       /\ timers' = Append(timers, ExpectedDelays[hist'.failures])]_vars

\* the sixth consecutive close has scheduled its reconnect
C6_Witness == hist.failures = 6 /\ timers = <<30000>>

\* C7: the attempt counter never exceeds 10, at most 10 reconnects are
\* scheduled between two opens (or an open and a teardown), and a close that
\* follows 10 consecutive non-terminal closes schedules none.
C7_AtMostTenReconnects ==
  [][/\ reconnectAttemptsRef' <= 10
     /\ hist'.scheduled <= 10
     /\ (hist.failures >= 10 /\ hist'.failures > hist.failures) =>
          Len(timers') <= Len(timers)]_vars

\* an eleventh consecutive close was handled
C7_Witness == hist.failures = 11 /\ hist.scheduled = 10 /\ reconnectAttemptsRef = 10

----------------------------------------------------------------------------
(* Properties of the unread counts *)

\* C8: an inbound dm addressed to the local user issues exactly one ledger
\* operation for its sender: clear when the sender's conversation is the one
\* on screen and the page is not hidden, increment otherwise.
C8_UnreadPolicy ==
  [][(Len(pending') > Len(pending) /\ pending'[Len(pending')].kind # "getAll") =>
       LET op == pending'[Len(pending')]
       IN  /\ pending' = Append(pending, op)
           /\ op.kind \in {"clear", "increment"}
           /\ op.kind = "clear" <=> (pathname = DmPath(op.peer) /\ ~documentHidden)]_vars

\* C9: markDmsAsRead does not race with the increment of an inbound dm of the
\* same peer: once no operation is pending, the ledger count and the count in
\* memory are those of the operations in the order of their issue, so both
\* are 0 when markDmsAsRead came after the increment was issued, and both are
\* 1 when the dm came after markDmsAsRead.
C9_MarkReadOrdered ==
  pending = <<>> =>
    \A p \in Peers :
      /\ Count(ledger, p) = hist.expect[p]
      /\ p \in DOMAIN unreadCounts => unreadCounts[p] = hist.expect[p]
      /\ hist.raced = p => (Count(ledger, p) = 0 /\ Count(unreadCounts, p) = 0)

\* markDmsAsRead found an increment pending, and both have completed
C9_Witness ==
  /\ pending = <<>>
  /\ hist.raced \in Peers
  /\ hist.raced \in DOMAIN unreadCounts
  /\ unreadCounts[hist.raced] = 0
  /\ Count(ledger, hist.raced) = 0

\* C10: once a getAll snapshot has been applied and no ledger operation is
\* pending, the count in memory of every peer is its count in the ledger.
C10_MemoryMatchesLedger ==
  (hist.seeded /\ pending = <<>>) =>
    \A p \in Peers : Count(unreadCounts, p) = Count(ledger, p)

\* after the seed a dm has been counted and a conversation marked read
C10_Witness ==
  /\ hist.seeded
  /\ pending = <<>>
  /\ Count(ledger, Bobby) = 1 /\ Count(unreadCounts, Bobby) = 1
  /\ Bob \in DOMAIN ledger /\ ledger[Bob] = 0 /\ Count(unreadCounts, Bob) = 0

----------------------------------------------------------------------------
(* Properties of the ledger *)

\* C11: an increment of a peer completing adds exactly 1 to that peer's ledger
\* count (so N increments with no clear between them add N, and the increment
\* after a clear leaves 1), a clear completing leaves exactly 0 whatever the
\* count was (so a second clear changes nothing), no other step changes a
\* count, and no count is ever negative.
C11_LedgerCounts ==
  [][\A p \in Peers :
       /\ Count(ledger', p) >= 0
       /\ IF pending # <<>> /\ pending' = Tail(pending) /\ Head(pending).peer = p
            THEN /\ Head(pending).kind = "increment" =>
                      Count(ledger', p) = Count(ledger, p) + 1
                 /\ Head(pending).kind = "clear" => Count(ledger', p) = 0
            ELSE Count(ledger', p) = Count(ledger, p)]_vars

\* two increments of one peer have completed with no clear between them, and
\* the other peer's entry was cleared
C11_Witness ==
  /\ pending = <<>>
  /\ Count(ledger, Bobby) = 2
  /\ Bob \in DOMAIN ledger /\ ledger[Bob] = 0

----------------------------------------------------------------------------
(* Properties of the outbound commands *)

\* C12: a dm frame is emitted only by a call made while the socket is open,
\* the local identity is set and the recipient is not the local user: a send
\* to oneself emits nothing, and while the identity is null no call emits a
\* dm frame.
C12_DirectSendGuarded ==
  [][(sent' # sent /\ sent'[Len(sent')].type = "dm") =>
       /\ sent' = Append(sent, sent'[Len(sent')])
       /\ IsOpen(sockets, socketRef)
       /\ currentUsernameRef # Null
       /\ sent'[Len(sent')].to # currentUsernameRef]_vars

\* a dm was sent, a later call found the identity cleared, and a call named
\* the local user
C12_Witness ==
  /\ \E k \in 1..Len(sent) :
       /\ sent[k].type = "dm"
       /\ \E c \in 1..Len(hist.outcomes) :
            c > sent[k].content /\ hist.outcomes[c] = "NoIdentity"
  /\ \E c \in 1..Len(hist.outcomes) : hist.outcomes[c] = "Self"

\* C13: every chat frame on the wire was emitted by the call that carries
\* its content, within that call and with the socket open; a call made while
\* the socket is not open emits nothing then and nothing of it is sent later,
\* a reconnect included.
C13_GlobalSendNotQueued ==
  [][/\ Len(sent') >= Len(sent)
     /\ SubSeq(sent', 1, Len(sent)) = sent
     /\ Len(sent') <= Len(sent) + 1
     /\ (Len(sent') > Len(sent) /\ sent'[Len(sent')].type = "chat") =>
          /\ IsOpen(sockets, socketRef)
          /\ sent'[Len(sent')].content = Len(hist.outcomes) + 1
          /\ Len(hist'.outcomes) = Len(hist.outcomes) + 1
     /\ \A k \in 1..Len(sent') :
          sent'[k].type = "chat" => hist'.outcomes[sent'[k].content] = "Sent"]_vars

\* a sendGlobalChatMessage found the socket not open, and after the
\* reconnect a later call was sent
C13_Witness ==
  \E c \in 1..Len(hist.outcomes), k \in 1..Len(sent) :
    /\ hist.outcomes[c] = "NotConnected"
    /\ \A j \in 1..Len(sent) : sent[j].content # c
    /\ sent[k].type = "chat"
    /\ sent[k].content > c
    /\ reconnectAttemptsRef = 0 /\ hist.failures = 0 /\ isConnected

----------------------------------------------------------------------------
(* Properties of the bulk history load *)

Ids(log) == {log[i].id : i \in 1..Len(log)}

\* the law of one log: loading a page again changes nothing, loading a
\* second page after a first is loading the two at once (the later page put
\* first), and the ids after a load are those of the log and of the page
IdempotentUnion(log, pages) ==
  \A b1 \in pages :
    LET once == BulkMerge(b1, log)
    IN  /\ BulkMerge(b1, once) = once
        /\ Ids(once) = Ids(log) \cup Ids(b1)
        /\ \A b2 \in pages : BulkMerge(b2, once) = BulkMerge(b2 \o b1, log)

\* C14: the bulk load is an idempotent union, on the global log and on every
\* peer's direct log, whatever log the frames and loads so far have left:
\* the same page twice is the page once, two pages one after the other
\* (overlapping or not) are their union loaded once, and the ids of the
\* result are the ids of the log and of the page.
C14_BulkLoadIdempotentUnion ==
  /\ IdempotentUnion(globalChatMessages, Pages(ChatPayloads))
  /\ \A p \in Peers :
       /\ IdempotentUnion(GetOr(directMessages, p, <<>>), Pages(ConversationPayloads(p)))
       /\ \A b \in Pages(ConversationPayloads(p)) :
            BulkMergeDirect(directMessages, p, b)[p] =
              BulkMerge(b, GetOr(directMessages, p, <<>>))

\* overlapping loads have acted on logs where the order of the pages shows:
\* the global log holds two messages of one instant, the one a live frame
\* brought carrying another timestamp than its copy in the history, and a
\* direct log holds two messages
C14_Witness ==
  /\ hist.repeated
  /\ Len(globalChatMessages) = 2
  /\ DateGetTime(globalChatMessages[1].timestamp) =
       DateGetTime(globalChatMessages[2].timestamp)
  /\ \E i \in 1..2 : globalChatMessages[i] \notin ChatPayloads
  /\ Len(GetOr(directMessages, Bob, <<>>)) = 2

----------------------------------------------------------------------------
(* Properties of the frames received without an identity *)

\* C15: a dm or dm_receipt frame received while the local identity is unset
\* is dropped: while the identity is null no frame creates or changes a
\* direct log.
C15_UnsetIdentityDropsDirect ==
  [][currentUsernameRef = Null => directMessages' = directMessages]_vars

----------------------------------------------------------------------------
(* Properties of the roster *)

\* C16: whenever the connection is not open (after any close event and after
\* the teardown) the presence roster is empty.
C16_RosterEmptyUnlessOpen ==
  ~IsOpen(sockets, socketRef) => onlineUsers = <<>>

----------------------------------------------------------------------------
(* Properties of the reconnect counter and of connect() *)

\* C17: an open resets the attempt counter to 0, and the first non-terminal
\* close handled after an open (no failure counted since) schedules its
\* reconnect with the base delay of 1000 ms, however many failures came
\* before that open.
C17_OpenResetsBackoff ==
  [][/\ (\E i \in 1..Len(sockets) :
            /\ Len(sockets') = Len(sockets)
            /\ sockets[i].readyState = "CONNECTING"
            /\ sockets'[i].readyState = "OPEN") => reconnectAttemptsRef' = 0
     /\ (hist.failures = 0 /\ hist'.failures = 1) =>
          /\ reconnectAttemptsRef' = 1
          /\ timers' = Append(timers, 1000)]_vars

\* with no teardown in between: two or more failures, an open, and the first
\* close after it has scheduled its reconnect
C17_Witness ==
  /\ hist.mounts = 1
  /\ hist.recovered
  /\ hist.failures = 1
  /\ timers = <<1000>>

\* C18: connect() called while the current socket is open (a reconnect timer
\* firing then) creates no socket, closes none, and leaves the attempt
\* counter, the connectivity flag, the roster and the logs as they were.
C18_ConnectWhileOpenIsNoop ==
  [][(Len(timers') < Len(timers) /\ socketRef # 0 /\
      sockets[socketRef].readyState = "OPEN") =>
       /\ sockets' = sockets
       /\ socketRef' = socketRef
       /\ reconnectAttemptsRef' = reconnectAttemptsRef
       /\ isConnected' = isConnected
       /\ onlineUsers' = onlineUsers
       /\ globalChatMessages' = globalChatMessages
       /\ directMessages' = directMessages]_vars

\* connect() has run while the current socket was open, which still is, with
\* a roster
C18_Witness ==
  /\ hist.noop
  /\ socketRef # 0 /\ sockets[socketRef].readyState = "OPEN"
  /\ Len(sockets) = 1
  /\ isConnected
  /\ onlineUsers # <<>>

\* a is b or comes before b in the order of the dictionary
LexLeq(a, b) ==
  \E k \in 0..Min(Len(a), Len(b)) :
    /\ SubSeq(a, 1, k) = SubSeq(b, 1, k)
    /\ \/ k = Len(a)
       \/ k < Len(b) /\ CharRank(a[k + 1]) < CharRank(b[k + 1])

\* C19: after a presence frame the roster holds exactly the users of that
\* frame, whatever it held before, with every online user before every
\* offline user and the usernames of each group in lexicographic order.
C19_RosterIsSortedSnapshot ==
  /\ Len(onlineUsers) = Len(hist.snapshot)
  /\ {onlineUsers[i] : i \in 1..Len(onlineUsers)} =
       {hist.snapshot[i] : i \in 1..Len(hist.snapshot)}
  /\ \A i, j \in 1..Len(onlineUsers) :
       i < j =>
         /\ onlineUsers[i].online \/ ~onlineUsers[j].online
         /\ onlineUsers[i].online = onlineUsers[j].online =>
              LexLeq(onlineUsers[i].username, onlineUsers[j].username)

\* a frame of three users that named an offline user first has replaced a
\* roster: the online user "me" stands before the offline "bob" and "bobby"
C19_Witness ==
  /\ Len(onlineUsers) = 3
  /\ ~hist.snapshot[1].online
  /\ onlineUsers[1] = [username |-> Me, online |-> TRUE]
  /\ onlineUsers[2] = [username |-> Bob, online |-> FALSE]
  /\ onlineUsers[3] = [username |-> Bobby, online |-> FALSE]

----------------------------------------------------------------------------
(* Properties of the notifications *)

\* C20: the increment of an inbound dm addressed to the local user raises a
\* notification of the sender when it completes if and only if the permission
\* is granted and the page is hidden at that moment, so a dm that arrived
\* while the page was hidden is notified when the page is still hidden then;
\* nothing else raises a notification, and none is raised while the page is
\* foregrounded.
C20_NotifiesWhenStillHidden ==
  [][/\ notifications' # notifications => (documentHidden /\ documentHidden')
     /\ IF pending # <<>> /\ pending' = Tail(pending) /\ Head(pending).kind = "increment"
          THEN notifications' =
                 IF notificationPermission = "granted" /\ documentHidden
                   THEN Append(notifications, Head(pending).peer)
                   ELSE notifications
          ELSE notifications' = notifications]_vars

\* two dms of one sender were counted; one raised a notification and the
\* other, completing with the page shown, did not
C20_Witness ==
  /\ pending = <<>>
  /\ Count(ledger, Bobby) = 2
  /\ notifications = <<Bobby>>

\* C20 as stated: every inbound dm addressed to the local user that arrived
\* while the page was hidden raises a notification (the permission being
\* granted), and no notification is raised while the page is foregrounded.
C20_HiddenArrivalNotifies ==
  [][/\ notifications' # notifications => (documentHidden /\ documentHidden')
     /\ (/\ pending # <<>> /\ pending' = Tail(pending)
         /\ Head(pending).kind = "increment"
         /\ Head(pending).hidden
         /\ notificationPermission = "granted") =>
          notifications' = Append(notifications, Head(pending).peer)]_vars

----------------------------------------------------------------------------
\* C21: every direct log is keyed by the participant that is not the local
\* user: a dm lies in the log of its sender, a receipt in the log of its
\* target, every message of the log of p has p as sender or target, and no
\* log is keyed by the local user's own name.
C21_KeyedByOtherParticipant ==
  \A p \in DOMAIN directMessages :
    /\ p # Me
    /\ p # currentUsernameRef
    /\ \A i \in 1..Len(directMessages[p]) :
         LET m == directMessages[p][i]
         IN  /\ m.sender = p \/ m.target = p
             /\ m.from_user # Null => m.from_user = p /\ m.target = Me
             /\ m.from_user = Null => m.target = p /\ m.sender = Me

\* the local user is signed in and the log of bob holds a dm of bob and a
\* receipt of a message sent to bob, while bobby has a log of their own
C21_Witness ==
  /\ currentUsernameRef = Me
  /\ Bob \in DOMAIN directMessages
  /\ Bobby \in DOMAIN directMessages
  /\ \E i, j \in 1..Len(directMessages[Bob]) :
       /\ directMessages[Bob][i].from_user = Bob
       /\ directMessages[Bob][j].sender = Me
  /\ Len(directMessages[Bobby]) > 0

----------------------------------------------------------------------------
\* C22: a frame that is no JSON, has an unknown type, lacks the fields of
\* its type or is a dm_receipt without a target is dropped: the step that
\* handles it leaves the connection, the roster, the logs and the unread
\* counts as they were, and no error escapes the handler, then or when a
\* later frame is processed.
C22_InvalidFramesDropped ==
  [][/\ hist'.invalid # hist.invalid =>
          UNCHANGED <<connVars, onlineUsers, logVars, unreadCounts>>
     /\ ~hist'.thrown]_vars

----------------------------------------------------------------------------
\* C24: a send command that is refused returns a typed failure to its
\* caller, NotConnected when the current socket is not open and
\* InvalidTarget when the identity is unset or the recipient is the local
\* user, and that value differs from what a successful send returns; the
\* refused message is not sent later.
C24_RefusalReturnsTypedFailure ==
  /\ \A c \in 1..Len(hist.outcomes) :
       /\ hist.outcomes[c] = "NotConnected" => hist.returned[c] = "NotConnected"
       /\ hist.outcomes[c] \in {"NoIdentity", "Self"} =>
            hist.returned[c] = "InvalidTarget"
       /\ hist.outcomes[c] # "Sent" =>
            \A d \in 1..Len(hist.outcomes) :
              hist.outcomes[d] = "Sent" => hist.returned[d] # hist.returned[c]
  /\ \A k \in 1..Len(sent) : hist.outcomes[sent[k].content] = "Sent"

----------------------------------------------------------------------------
\* C25: in an activation that is not torn down, a reconnect scheduled by
\* the n-th consecutive failure leads to a new current socket, and from
\* there to an open current socket with isConnected true, unless the server
\* closes that socket first (a further failure or a terminal close).
C25_ReconnectLeadsToOpen ==
  /\ (timers # <<>>) ~>
       (timers = <<>> /\ socketRef # 0 /\ sockets[socketRef].readyState = "CONNECTING")
  /\ \A n \in 1..maxReconnectAttempts :
       (timers # <<>> /\ hist.failures = n) ~>
         \/ IsOpen(sockets, socketRef) /\ isConnected
         \/ hist.failures > n
         \/ hist.failedTerminal

\* the current socket is open and the flag is set after two or more
\* consecutive failures, the attempt counter is back at 0 and no timer is left
C25_Witness ==
  /\ IsOpen(sockets, socketRef)
  /\ isConnected
  /\ hist.recovered
  /\ reconnectAttemptsRef = 0
  /\ timers = <<>>
  /\ Len(sockets) = 1

----------------------------------------------------------------------------
\* C26: the channels are independent logs.  A step that changes the global
\* log leaves every direct log as it was, a step that changes the direct
\* logs leaves the global log as it was and changes the log of one peer
\* only, the global log holds chat messages only and the direct logs hold
\* none.
C26_ChannelsIndependent ==
  [][/\ globalChatMessages' # globalChatMessages => directMessages' = directMessages
     /\ directMessages' # directMessages =>
          /\ globalChatMessages' = globalChatMessages
          /\ \E p \in Peers :
               /\ DOMAIN directMessages' = DOMAIN directMessages \cup {p}
               /\ \A q \in DOMAIN directMessages :
                    q # p => directMessages'[q] = directMessages[q]
     /\ \A i \in 1..Len(globalChatMessages') :
          globalChatMessages'[i].target = Null
     /\ \A p \in DOMAIN directMessages' : \A i \in 1..Len(directMessages'[p]) :
          directMessages'[p][i].target # Null]_vars

\* the global log and the logs of both peers hold messages, and the three
\* logs differ in length
C26_Witness ==
  /\ Len(globalChatMessages) = 1
  /\ Len(GetOr(directMessages, Bob, <<>>)) = 2
  /\ Len(GetOr(directMessages, Bobby, <<>>)) = 1
  /\ directMessages[Bobby][1].sender = Me

----------------------------------------------------------------------------
\* C27: at most one socket the client has created is connecting or open,
\* and it is the current one: every socket that connect() has replaced or
\* the cleanup has released is closing or closed.
C27_AtMostOneActiveSocket ==
  /\ Cardinality({i \in 1..Len(sockets) :
                    sockets[i].readyState \in {"CONNECTING", "OPEN"}}) <= 1
  /\ \A i \in 1..Len(sockets) :
       sockets[i].readyState \in {"CONNECTING", "OPEN"} =>
         i = socketRef /\ sockets[i].onclose

\* the current socket is open while a socket that connect() replaced is
\* still closing with its handlers attached
C27_Witness ==
  /\ IsOpen(sockets, socketRef)
  /\ \E i \in 1..Len(sockets) :
       /\ sockets[i].readyState = "CLOSING"
       /\ sockets[i].replaced
       /\ sockets[i].onclose

----------------------------------------------------------------------------
\* C28: isConnected is true exactly when the current socket is open: it is
\* false after every close event and after the teardown, and it is never
\* false while the current socket is open.
C28_FlagMatchesSocket == isConnected <=> IsOpen(sockets, socketRef)

----------------------------------------------------------------------------
\* C29: while no clear is issued, the unread count of a peer is at most the
\* number of distinct dm ids of that peer addressed to the local user that
\* have been received: a dm delivered again does not raise the count.  No
\* clear is issued under SpecNotify and every dm received is in the log of
\* its sender.
C29_UnreadBoundedByDistinctDms ==
  \A p \in Peers :
    Count(unreadCounts, p) <=
      Cardinality({m.id : m \in {GetOr(directMessages, p, <<>>)[i] :
                                    i \in 1..Len(GetOr(directMessages, p, <<>>))}})

----------------------------------------------------------------------------
\* the entries of a log
Entries(log) == {log[i] : i \in 1..Len(log)}

\* C30: within one activation the logs only grow.  Every entry of the
\* global log and of every direct log is an entry of that log after every
\* step, so no frame and no batch removes an id or replaces the entry that
\* carries it, and a step of the connection (a close event, a reconnect
\* timer, an open) leaves the logs as they were.
C30_LogsOnlyGrow ==
  [][/\ Entries(globalChatMessages) \subseteq Entries(globalChatMessages')
     /\ \A p \in DOMAIN directMessages :
          /\ p \in DOMAIN directMessages'
          /\ Entries(directMessages[p]) \subseteq Entries(directMessages'[p])
     /\ (sockets' # sockets \/ timers' # timers \/ isConnected' # isConnected) =>
          UNCHANGED logVars]_vars

\* the connection has dropped and a reconnect is scheduled; the global log
\* still holds message 1 with the timestamp of its frame although a later
\* batch or frame carried id 1 again, and the log of bob holds a message
C30_Witness ==
  /\ ~isConnected
  /\ timers # <<>>
  /\ hist.repeated
  /\ ChatPayload(1, "2024-01-01T00:00:01Z") \in Entries(globalChatMessages)
  /\ Len(globalChatMessages) = 2
  /\ Len(GetOr(directMessages, Bob, <<>>)) >= 1

====
